---- MODULE Spec2Model ----
(***************************************************************************)
(* Delegate<TRet(Args...)> of delegate.h (the revision that derives from   *)
(* ICallable): a multicast container owning a vector of type-erased        *)
(* callables.  The heap is explicit: every wrapper a Delegate owns is a    *)
(* heap cell, and a Delegate's _data is a sequence of cell addresses.      *)
(***************************************************************************)
EXTENDS Integers, Sequences, FiniteSets, TLC

(* ------------------------------ bounds --------------------------------- *)
\* most entries a caller puts into one Delegate
MaxLen == 2
\* heap cells available to wrappers
MaxHeap == 4
\* deepest nesting of a Delegate stored as an entry of a Delegate
MaxDepth == 1

VARIABLES pool, heap, dels, copied, last

vars == <<pool, heap, dels, copied, last>>

\* the Delegate objects the caller owns
Names == {"d1", "d2"}

Addrs == 1..MaxHeap

\* a heap cell that holds no object
Nil == [kind |-> "free", type |-> "", v |-> 0, obj |-> 0, func |-> 0, data |-> <<>>]

\* _CallableWrapperImpl<T> holding a function pointer, a functor or lambda
ValCell(t, v) == [kind |-> "val", type |-> t, v |-> v, obj |-> 0, func |-> 0, data |-> <<>>]

\* _CallableWrapperImpl<Delegate>: the held Delegate's _data is d
WrapCell(d) == [kind |-> "val", type |-> "Delegate", v |-> 0, obj |-> 0, func |-> 0, data |-> d]

\* _MemberFuncWrapper<T> (c = "memfn") and _ConstMemberFuncWrapper<T> (c = "cmemfn")
MemCell(c, o, f) == [kind |-> "mem", type |-> c, v |-> 0, obj |-> o, func |-> f, data |-> <<>>]

\* a Delegate allocated by Clone()
DlgCell(d) == [kind |-> "dlg", type |-> "Delegate", v |-> 0, obj |-> 0, func |-> 0, data |-> d]

\* The callables of the caller's program.  Value callables have a type T:
\* "fp" a function pointer (value 0 is the null pointer, function 3 throws
\* an exception whenever it is called), "flat" a
\* standard-layout functor without operator== whose bytes are its value,
\* "owner" a standard-layout functor without operator== that holds a
\* container of its own (a std::string, a std::vector: each copy has its
\* own buffer), "opaque" a functor that is neither comparable nor
\* standard-layout.  Bound methods pair a receiver
\* object with a member function (0 is the null member-function pointer).
\* One program works with one of these pools; nest says whether it also
\* stores Delegates in Delegates.
Pools ==
    { [nest |-> FALSE, cs |-> {ValCell("fp", 0), ValCell("fp", 1), ValCell("fp", 2)}],
      [nest |-> FALSE, cs |-> {ValCell("fp", 0), ValCell("fp", 1), ValCell("opaque", 1)}],
      [nest |-> FALSE, cs |-> {ValCell("flat", 1), MemCell("memfn", 1, 1)}],
      [nest |-> FALSE, cs |-> {ValCell("fp", 1), ValCell("owner", 1)}],
      [nest |-> FALSE, cs |-> {ValCell("fp", 1), ValCell("fp", 3)}],
      [nest |-> FALSE, cs |-> {MemCell("memfn", 1, 1), MemCell("memfn", 2, 1)}],
      [nest |-> FALSE, cs |-> {MemCell("memfn", 1, 1), MemCell("memfn", 1, 2)}],
      [nest |-> FALSE, cs |-> {MemCell("memfn", 1, 0), MemCell("cmemfn", 1, 1)}],
      [nest |-> FALSE, cs |-> {MemCell("cmemfn", 1, 0), MemCell("memfn", 1, 1)}],
      [nest |-> TRUE, cs |-> {ValCell("fp", 1)}] }

\* the arguments of Add and Remove, by overload
FuncPtrArgs == {c \in pool.cs : c.type = "fp"}

FunctorArgs == {c \in pool.cs : c.kind = "val" /\ c.type # "fp"}

MemberArgs == {c \in pool.cs : c.kind = "mem"}

(* ------------------------- equality strategy --------------------------- *)
\* _IsEqualityComparable<T> and _IsMemcmpSafe<T> select one EqualsImpl per T
Tier(t) ==
    CASE t = "fp" -> 1
      [] t = "Delegate" -> 1
      [] t = "flat" -> 2
      [] t = "owner" -> 2
      [] OTHER -> 3

(* ------------------------------ heap ----------------------------------- *)
FreeAddrs(h) == {a \in Addrs : h[a].kind = "free"}

\* operator new: some free cell; the lowest one, since an address is only
\* ever compared for identity
NewAddr(h) == CHOOSE a \in FreeAddrs(h) : \A b \in FreeAddrs(h) : a <= b

RECURSIVE CellsOf(_, _)
\* the cells owned through the sequence of addresses d
CellsOf(h, d) ==
    IF d = <<>> THEN {}
    ELSE {Head(d)} \cup CellsOf(h, h[Head(d)].data) \cup CellsOf(h, Tail(d))

RECURSIVE DepthOf(_, _)
DepthOf(h, d) ==
    IF d = <<>> THEN 0
    ELSE LET c == h[Head(d)]
             here == IF c.type = "Delegate" THEN 1 + DepthOf(h, c.data) ELSE 0
             rest == DepthOf(h, Tail(d))
         IN IF here > rest THEN here ELSE rest

\* ~unique_ptr on every element: the wrappers and all they own are released
FreeAll(h, d) == [a \in Addrs |-> IF a \in CellsOf(h, d) THEN Nil ELSE h[a]]

RECURSIVE CloneSeq(_, _, _)
RECURSIVE CloneCell(_, _)
\* item->Clone(): a new cell holding a copy of cell a; a held Delegate is
\* copied by its copy constructor, which clones each of its entries
CloneCell(h, a) ==
    LET n  == NewAddr(h)
        h1 == [h EXCEPT ![n] = [h[a] EXCEPT !.data = <<>>]]
        r  == CloneSeq(h1, h[a].data, <<>>)
    IN [h |-> [r.h EXCEPT ![n].data = r.d], a |-> n]

\* the loop "for (item : other._data) _data.emplace_back(item->Clone())"
CloneSeq(h, d, acc) ==
    IF d = <<>> THEN [h |-> h, d |-> acc]
    ELSE LET r == CloneCell(h, Head(d))
         IN CloneSeq(r.h, Tail(d), Append(acc, r.a))

(* ------------------------------ views ---------------------------------- *)
RECURSIVE View(_, _)
\* the object at address a with all it owns, as a value; ref is its address
View(h, a) ==
    [ref |-> a, kind |-> h[a].kind, type |-> h[a].type, v |-> h[a].v,
     obj |-> h[a].obj, func |-> h[a].func,
     sub |-> [i \in 1..Len(h[a].data) |-> View(h, h[a].data[i])]]

Views(h, d) == [i \in 1..Len(d) |-> View(h, d[i])]

\* the address of a Delegate the caller owns: outside the heap of wrappers
NameRef(n) == IF n = "d1" THEN -1 ELSE -2

\* a caller's Delegate seen as an ICallable
TopView(h, ds, n) ==
    [ref |-> NameRef(n), kind |-> "dlg", type |-> "Delegate", v |-> 0,
     obj |-> 0, func |-> 0, sub |-> Views(h, ds[n].data)]

\* the Delegate held in the storage of a _CallableWrapperImpl<Delegate>:
\* as many distinct objects as there are wrappers
GetValue(x) == [x EXCEPT !.ref = x.ref + 1000, !.kind = "dlg"]

RECURSIVE Fresh(_)
\* a copy made for the length of one call: its address, and those of all it
\* owns, differ from every address the heap of wrappers holds
Fresh(x) == [x EXCEPT !.ref = 0, !.sub = [i \in 1..Len(x.sub) |-> Fresh(x.sub[i])]]

\* the throwaway wrapper Remove builds from its argument
Temp(c) ==
    [ref |-> 0, kind |-> c.kind, type |-> c.type, v |-> c.v, obj |-> c.obj,
     func |-> c.func, sub |-> <<>>]

\* _CallableWrapper<Delegate>(callable): copy-constructs the Delegate it holds
TempWrap(x) == [Fresh(x) EXCEPT !.kind = "val"]

(* ------------------------------ Equals --------------------------------- *)
\* GetTypeInfo(): typeid(T) for a value wrapper, typeid(func) for a bound
\* method, typeid(Delegate) for a Delegate
GetTypeInfo(x) == x.type

\* the concrete class of the object behind an ICallable reference
ClassOf(x) == <<x.kind, x.type>>

\* the result of a comparison the language defines
Defined(b) == {[r |-> b, ub |-> FALSE]}

\* a static_cast to a class the object is not an instance of, followed by a
\* read through it: any result
Undefined == {[r |-> b, ub |-> TRUE] : b \in BOOLEAN}

\* one more comparison, reached through undefined behaviour or not
After(u, S) == {[r |-> o.r, ub |-> o.ub \/ u] : o \in S}

RECURSIVE Equals(_, _)
RECURSIVE EqualsFromSkipLast(_, _, _)
RECURSIVE EqualsFrom(_, _, _)

\* what a loop that stops one entry short would decide
EqualsFromSkipLast(xs, ys, i) ==
    IF i >= Len(xs) THEN Defined(TRUE)
    ELSE UNION {IF o.r THEN After(o.ub, EqualsFromSkipLast(xs, ys, i + 1)) ELSE {o} :
                o \in Equals(xs[i], ys[i])}

\* the loop of Delegate::Equals from index i on: the first unequal pair
\* decides
EqualsFrom(xs, ys, i) ==
    IF i > Len(xs) THEN Defined(TRUE)
    ELSE UNION {IF o.r THEN After(o.ub, EqualsFrom(xs, ys, i + 1)) ELSE {o} :
                o \in Equals(xs[i], ys[i])}

\* Delegate::Equals, after the identity test
DelegateEquals(x, y) ==
    IF GetTypeInfo(x) # GetTypeInfo(y) THEN Defined(FALSE)
    ELSE IF ClassOf(y) # ClassOf(x) THEN Undefined
    ELSE IF Len(x.sub) # Len(y.sub) THEN Defined(FALSE)
    ELSE EqualsFrom(x.sub, y.sub, 1)

\* the bytes of _storage: the members of the value held; a container
\* member is a pointer to the buffer this copy of the value allocated, which
\* no other object has
Storage(x) == IF x.type = "owner" THEN <<x.v, x.ref>> ELSE <<x.v>>

\* an EqualsImpl that compares the values held whatever the tier of T
EqualsImplByValue(x, y) ==
    IF x.ref = y.ref THEN Defined(TRUE)
    ELSE IF GetTypeInfo(x) # GetTypeInfo(y) THEN Defined(FALSE)
    ELSE IF ClassOf(y) # ClassOf(x) THEN Undefined
    ELSE IF x.type = "Delegate" THEN Equals(GetValue(x), GetValue(y))
    ELSE Defined(x.v = y.v)

\* _CallableWrapperImpl<T>::EqualsImpl, the overload Tier(T) selects
EqualsImpl(x, y) ==
    IF Tier(x.type) = 3 THEN Defined(x.ref = y.ref)
    ELSE IF x.ref = y.ref THEN Defined(TRUE)
    ELSE IF GetTypeInfo(x) # GetTypeInfo(y) THEN Defined(FALSE)
    ELSE IF ClassOf(y) # ClassOf(x) THEN Undefined
    ELSE IF Tier(x.type) = 2 THEN Defined(Storage(x) = Storage(y))
    ELSE IF x.type = "Delegate" THEN Equals(GetValue(x), GetValue(y))
    ELSE Defined(x.v = y.v)

\* a comparison of bound methods that looks at the member function only
MemberEqualsByFunc(x, y) ==
    IF x.ref = y.ref THEN Defined(TRUE)
    ELSE IF GetTypeInfo(x) # GetTypeInfo(y) THEN Defined(FALSE)
    ELSE Defined(x.func = y.func)

\* _MemberFuncWrapper<T>::Equals and _ConstMemberFuncWrapper<T>::Equals
MemberEquals(x, y) ==
    IF x.ref = y.ref THEN Defined(TRUE)
    ELSE IF GetTypeInfo(x) # GetTypeInfo(y) THEN Defined(FALSE)
    ELSE Defined(x.obj = y.obj /\ x.func = y.func)

\* x.Equals(y), dispatched on the class of x: the results the call can give
Equals(x, y) ==
    CASE x.kind = "val" -> EqualsImpl(x, y)
      [] x.kind = "mem" -> MemberEquals(x, y)
      [] x.kind = "dlg" -> IF x.ref = y.ref THEN Defined(TRUE) ELSE DelegateEquals(x, y)
      [] OTHER -> Undefined

(* ------------------------------ Invoke --------------------------------- *)
\* what the caller's callable returns
Result(x) ==
    CASE x.type = "fp" -> x.v
      [] x.type = "flat" -> 10 + x.v
      [] x.type = "opaque" -> 20 + x.v
      [] x.type = "owner" -> 30 + x.v
      [] x.type = "memfn" -> 100 + 10 * x.obj + x.func
      [] x.type = "cmemfn" -> 200 + 10 * x.obj + x.func
      [] OTHER -> 0

\* the caller's callable x throws
Throws(x) == x.type = "fp" /\ x.v = 3

\* one run of Invoke or InvokeAll: how it ended, what it returned, the
\* entries it called (their addresses, in call order) and the results those
\* calls gave
Outcome(st, ret, calls, rets) == [st |-> st, ret |-> ret, calls |-> calls, rets |-> rets]

RECURSIVE InvokeEntry(_)
RECURSIVE InvokeFromContinue(_, _, _, _)
RECURSIVE InvokeFrom(_, _, _, _)
RECURSIVE InvokeAllLast(_, _, _, _)
RECURSIVE InvokeAllFrom(_, _, _, _)

\* an Invoke that calls into an empty vector instead of throwing
InvokeUnchecked(xs) ==
    IF xs = <<>> THEN {Outcome("ok", 0, <<>>, <<>>)}
    ELSE InvokeFrom(xs, 1, <<>>, <<>>)

\* what a Delegate would return if it returned its first entry's result
InvokeFirstResult(xs) ==
    IF xs = <<>> THEN {Outcome("EmptyDelegate", 0, <<>>, <<>>)}
    ELSE {IF o.st = "ok" THEN [o EXCEPT !.ret = o.rets[1]] ELSE o :
          o \in InvokeFrom(xs, 1, <<>>, <<>>)}

\* Delegate::Invoke on the entries xs
DelegateInvoke(xs) ==
    IF xs = <<>> THEN {Outcome("EmptyDelegate", 0, <<>>, <<>>)}
    ELSE InvokeFrom(xs, 1, <<>>, <<>>)

\* an Invoke that goes on calling the entries behind one that has failed
\* and reports the failure at the end
InvokeFromContinue(xs, i, calls, rets) ==
    UNION {IF i >= Len(xs)
           THEN {Outcome(o.st, o.ret, Append(calls, xs[i].ref), Append(rets, o.ret))}
           ELSE {IF o.st # "ok" THEN [q EXCEPT !.st = o.st, !.ret = 0] ELSE q :
                 q \in InvokeFromContinue(xs, i + 1, Append(calls, xs[i].ref),
                                          Append(rets, o.ret))} :
           o \in InvokeEntry(xs[i])}

\* the loop of Delegate::Invoke at index i, then the call of back(); calls
\* holds the entries called so far, rets the results the loop has dropped
InvokeFrom(xs, i, calls, rets) ==
    UNION {IF o.st # "ok" THEN {Outcome(o.st, 0, Append(calls, xs[i].ref), rets)}
           ELSE IF i >= Len(xs)
                THEN {Outcome("ok", o.ret, Append(calls, xs[i].ref), Append(rets, o.ret))}
           ELSE InvokeFrom(xs, i + 1, Append(calls, xs[i].ref), Append(rets, o.ret)) :
           o \in InvokeEntry(xs[i])}

\* an InvokeAll that keeps only the result of the entry called last
InvokeAllLast(xs, i, calls, rets) ==
    IF i > Len(xs) THEN {Outcome("ok", 0, calls, rets)}
    ELSE UNION {IF o.st # "ok" THEN {Outcome(o.st, 0, Append(calls, xs[i].ref), rets)}
                ELSE InvokeAllLast(xs, i + 1, Append(calls, xs[i].ref), <<o.ret>>) :
                o \in InvokeEntry(xs[i])}

\* the loop of Delegate::InvokeAll at index i; rets is the vector results
InvokeAllFrom(xs, i, calls, rets) ==
    IF i > Len(xs) THEN {Outcome("ok", 0, calls, rets)}
    ELSE UNION {IF o.st # "ok" THEN {Outcome(o.st, 0, Append(calls, xs[i].ref), rets)}
                ELSE InvokeAllFrom(xs, i + 1, Append(calls, xs[i].ref), Append(rets, o.ret)) :
                o \in InvokeEntry(xs[i])}

\* entry->Invoke(args...): a wrapper forwards to what it holds; a call
\* through a null member-function pointer is undefined (the process dies,
\* or the call returns with some value)
InvokeEntry(x) ==
    CASE x.kind = "val" /\ Throws(x) -> {Outcome("thrown", 0, <<>>, <<>>)}
      [] x.kind = "val" /\ x.type # "Delegate" -> {Outcome("ok", Result(x), <<>>, <<>>)}
      [] x.kind = "mem" /\ x.func # 0 -> {Outcome("ok", Result(x), <<>>, <<>>)}
      [] x.kind = "mem" /\ x.func = 0 ->
             {Outcome("crash", 0, <<>>, <<>>), Outcome("ok", 0, <<>>, <<>>)}
      [] x.type = "Delegate" -> {Outcome(o.st, o.ret, <<>>, <<>>) : o \in DelegateInvoke(x.sub)}
      [] OTHER -> {Outcome("crash", 0, <<>>, <<>>)}

(* --------------------------- the operations ---------------------------- *)
\* Each operation is a function from the heap h and the Delegates ds to
\* the heap and the Delegates it leaves (or to the set of those it can
\* leave); the actions below apply them to the state.

After2(h, ds) == [h |-> h, ds |-> ds]

\* an Add that puts the new wrapper c in front of the entries
EmplaceFront(h, ds, n, c) ==
    LET a == NewAddr(h)
    IN After2([h EXCEPT ![a] = c], [ds EXCEPT ![n].data = <<a>> \o @])

\* _data.emplace_back(std::make_unique<W>(...)) with the new wrapper c
EmplaceBack(h, ds, n, c) ==
    LET a == NewAddr(h)
    IN After2([h EXCEPT ![a] = c], [ds EXCEPT ![n].data = Append(@, a)])

\* Add(TRet (*func)(Args...))
AddFunc(h, ds, n, c) ==
    IF c.v # 0 THEN EmplaceBack(h, ds, n, c) ELSE After2(h, ds)

\* Add(const T &callable), T a functor or lambda type
AddCallable(h, ds, n, c) == EmplaceBack(h, ds, n, c)

\* Add(T &obj, TRet (T::*func)(Args...)) and its const overload
AddMember(h, ds, n, c) == EmplaceBack(h, ds, n, c)

\* an entry that refers to the entries of m instead of copying them
NewShared(h, ds, n, m, c) ==
    LET a == NewAddr(h)
    IN After2([h EXCEPT ![a] = [c EXCEPT !.data = ds[m].data]],
              [ds EXCEPT ![n].data = Append(@, a)])

\* a copy of Delegate m in a new cell made from c (c's data empty),
\* appended to n
NewCopy(h, ds, n, m, c) ==
    LET a  == NewAddr(h)
        h1 == [h EXCEPT ![a] = c]
        r  == CloneSeq(h1, ds[m].data, <<>>)
    IN After2([r.h EXCEPT ![a].data = r.d], [ds EXCEPT ![n].data = Append(@, a)])

\* Add(const T &callable) with T = Delegate: the wrapper holds a copy of m
AddDelegate(h, ds, n, m) == NewCopy(h, ds, n, m, WrapCell(<<>>))

\* Add(const ICallable &callable) with m passed as an ICallable:
\* callable.Clone() is new Delegate(m)
AddICallable(h, ds, n, m) == NewCopy(h, ds, n, m, DlgCell(<<>>))

\* a Clear that drops the last entry only
ClearBack(h, ds, n) ==
    IF ds[n].data = <<>> THEN After2(h, ds)
    ELSE After2(FreeAll(h, <<ds[n].data[Len(ds[n].data)]>>),
                [ds EXCEPT ![n].data = SubSeq(@, 1, Len(@) - 1)])

\* Clear()
Clear(h, ds, n) == After2(FreeAll(h, ds[n].data), [ds EXCEPT ![n].data = <<>>])

RECURSIVE ScanForward(_, _, _, _)
RECURSIVE Scan(_, _, _, _)

\* a scan from the front: the index of the first entry that Equals y
ScanForward(xs, y, i, u) ==
    IF i = 0 \/ i > Len(xs) THEN {[idx |-> 0, ub |-> u]}
    ELSE UNION {IF o.r THEN {[idx |-> Len(xs) + 1 - i, ub |-> u \/ o.ub]}
                ELSE ScanForward(xs, y, i - 1, u \/ o.ub) :
                o \in Equals(xs[Len(xs) + 1 - i], y)}

\* the loop of _Remove with the reverse iterator at entry i: the index of
\* the entry it erases, 0 when it reaches rend()
Scan(xs, y, i, u) ==
    IF i = 0 THEN {[idx |-> 0, ub |-> u]}
    ELSE UNION {IF o.r THEN {[idx |-> i, ub |-> u \/ o.ub]}
                ELSE Scan(xs, y, i - 1, u \/ o.ub) :
                o \in Equals(xs[i], y)}

\* an erase that releases the wrapper and keeps its slot in the vector
WithoutErase(d, i) == d

\* an erase that fills the slot with the last element and drops the last
WithoutSwap(d, i) ==
    [j \in 1..(Len(d) - 1) |-> IF j = i THEN d[Len(d)] ELSE d[j]]

\* d without its i-th element
Without(d, i) == [j \in 1..(Len(d) - 1) |-> IF j < i THEN d[j] ELSE d[j + 1]]

\* _Remove(callable) on n, callable seen as y: what it can leave, with the
\* index it erased (0: it returned false)
_Remove(h, ds, n, y) ==
    {[h   |-> IF s.idx = 0 THEN h ELSE FreeAll(h, <<ds[n].data[s.idx]>>),
      ds  |-> IF s.idx = 0 THEN ds ELSE [ds EXCEPT ![n].data = Without(@, s.idx)],
      idx |-> s.idx, ub |-> s.ub] :
     s \in Scan(Views(h, ds[n].data), y, Len(ds[n].data), FALSE)}

\* Remove(TRet (*func)(Args...))
RemoveFunc(h, ds, n, c) ==
    IF c.v = 0 THEN {[h |-> h, ds |-> ds, idx |-> 0, ub |-> FALSE]}
    ELSE _Remove(h, ds, n, Temp(c))

\* Remove(const T &callable), T a functor or lambda type
RemoveCallable(h, ds, n, c) == _Remove(h, ds, n, Temp(c))

\* Remove(T &obj, TRet (T::*func)(Args...)) and its const overload
RemoveMember(h, ds, n, c) == _Remove(h, ds, n, Temp(c))

\* Remove(const T &callable) with T = Delegate
RemoveDelegate(h, ds, n, m) == _Remove(h, ds, n, TempWrap(TopView(h, ds, m)))

\* Remove(const ICallable &callable) with m passed as an ICallable
RemoveICallable(h, ds, n, m) == _Remove(h, ds, n, TopView(h, ds, m))

\* a copy that takes over the addresses of the entries d
ShareEntries(h, d) == [h |-> h, d |-> d]

\* the copy loop of the copy constructor and of operator=(const Delegate &):
\* every entry of d is cloned
CopyEntries(h, d) == CloneSeq(h, d, <<>>)

\* Delegate(const Delegate &other)
CopyConstruct(h, ds, dst, src) ==
    LET r == CopyEntries(h, ds[src].data)
    IN After2(r.h, [ds EXCEPT ![dst] = [alive |-> TRUE, data |-> r.d]])

\* operator=(const Delegate &other)
CopyAssign(h, ds, dst, src) ==
    IF dst = src THEN After2(h, ds)
    ELSE LET r == CopyEntries(FreeAll(h, ds[dst].data), ds[src].data)
         IN After2(r.h, [ds EXCEPT ![dst].data = r.d])

\* a move that leaves the source as it was
MovedFromKept(d) == d

\* what the vector of a moved-from Delegate holds
MovedFrom(d) == <<>>

\* Delegate(Delegate &&other): _data(std::move(other._data))
MoveConstruct(h, ds, dst, src) ==
    After2(h, [ds EXCEPT ![dst] = [alive |-> TRUE, data |-> ds[src].data],
                         ![src].data = MovedFrom(ds[src].data)])

\* operator=(Delegate &&other)
MoveAssign(h, ds, dst, src) ==
    IF dst = src THEN After2(h, ds)
    ELSE After2(FreeAll(h, ds[dst].data),
                [ds EXCEPT ![dst].data = ds[src].data,
                           ![src].data = MovedFrom(ds[src].data)])

\* ~Delegate(): the vector releases every wrapper
Destroy(h, ds, n) ==
    After2(FreeAll(h, ds[n].data), [ds EXCEPT ![n] = [alive |-> FALSE, data |-> <<>>]])

\* std::vector::empty()
Empty(d) == Len(d) = 0

\* operator==(std::nullptr_t)
EqNullptr(d) == Empty(d)

\* operator!=(std::nullptr_t)
NeNullptr(d) == ~Empty(d)

\* a conversion to bool that tells whether the Delegate is empty
OperatorBoolInverted(d) == Empty(d)

\* operator bool()
OperatorBool(d) == ~Empty(d)

\* Invoke(args...) and operator() on n
Invoke(h, ds, n) == DelegateInvoke(Views(h, ds[n].data))

\* InvokeAll(args...) on n
InvokeAll(h, ds, n) == InvokeAllFrom(Views(h, ds[n].data), 1, <<>>, <<>>)

(* ------------------------- overload resolution ------------------------- *)
\* What a caller can pass to Add and Remove: a callable c of its program
\* (k = "c"), or its Delegate m, passed as it is (k = "wrap": the generic
\* overload is the better match) or through a reference to ICallable
\* (k = "icall").
ArgsOf(p, ds) ==
    [k : {"c"}, c : p.cs, m : {"d1"}]
        \cup IF p.nest
             THEN [k : {"wrap", "icall"}, c : {Nil}, m : {n \in Names : ds[n].alive}]
             ELSE {}

\* n.Add(s), by the overload the compiler picks for s
AddAny(h, ds, n, s) ==
    CASE s.k = "wrap" -> AddDelegate(h, ds, n, s.m)
      [] s.k = "icall" -> AddICallable(h, ds, n, s.m)
      [] s.c.type = "fp" -> AddFunc(h, ds, n, s.c)
      [] s.c.kind = "val" -> AddCallable(h, ds, n, s.c)
      [] OTHER -> AddMember(h, ds, n, s.c)

\* n.Remove(s), by the overload the compiler picks for s
RemoveAny(h, ds, n, s) ==
    CASE s.k = "wrap" -> RemoveDelegate(h, ds, n, s.m)
      [] s.k = "icall" -> RemoveICallable(h, ds, n, s.m)
      [] s.c.type = "fp" -> RemoveFunc(h, ds, n, s.c)
      [] s.c.kind = "val" -> RemoveCallable(h, ds, n, s.c)
      [] OTHER -> RemoveMember(h, ds, n, s.c)

\* the wrappers Add(s) allocates at most
CellsFor(h, ds, s) ==
    IF s.k = "c" THEN 1 ELSE 1 + Cardinality(CellsOf(h, ds[s.m].data))

\* the heap has the cells Add(s) allocates
Fits(h, ds, s) == Cardinality(FreeAddrs(h)) >= CellsFor(h, ds, s)

(* ------------------------------ the state ------------------------------ *)
RECURSIVE Reach(_, _, _)
\* the cells reached from the sequence of addresses d, in the order the
\* owners hold them, after those of acc
Reach(h, d, acc) ==
    IF d = <<>> THEN acc
    ELSE IF \E i \in 1..Len(acc) : acc[i] = Head(d) THEN Reach(h, Tail(d), acc)
    ELSE Reach(h, Tail(d), Reach(h, h[Head(d)].data, Append(acc, Head(d))))

\* the heap h and the Delegates ds with the cells numbered as order lists
\* them
RenumberBy(h, ds, order) ==
    LET pos(a) == CHOOSE i \in 1..Len(order) : order[i] = a
        ren(d) == [i \in 1..Len(d) |-> pos(d[i])]
    IN [h  |-> [a \in Addrs |-> IF a <= Len(order)
                                THEN [h[order[a]] EXCEPT !.data = ren(@)]
                                ELSE Nil],
        ds |-> [n \in Names |-> [ds[n] EXCEPT !.data = ren(@)]]]

\* The allocator's choice of addresses: a program only compares addresses
\* for identity, so the heap is kept up to a renaming, the cells numbered
\* in the order d1 and then d2 reach them.
Renumber(h, ds) ==
    CHOOSE r \in {RenumberBy(h, ds, o) :
                  o \in {Reach(h, ds["d1"].data \o ds["d2"].data, <<>>)}} : TRUE

\* the heap and the Delegates after a call that left e
Commit(e) ==
    \E r \in {Renumber(x.h, x.ds) : x \in {e}} :
        /\ heap' = r.h
        /\ dels' = r.ds

Alive(n) == dels[n].alive

\* what the last call was and what it gave back to the caller; arg is the
\* callable a Remove was given (Nil when it was given a Delegate); ret is
\* also the index a Remove erased, the number of entries a Clear found and
\* the number of entries a failed Invoke or InvokeAll has called
Call(op, n, st) ==
    [op |-> op, tgt |-> n, st |-> st, arg |-> Nil, ret |-> 0, rets |-> <<>>, eq |-> <<>>]

Init ==
    /\ pool \in Pools
    /\ heap = [a \in Addrs |-> Nil]
    /\ dels = [n \in Names |-> [alive |-> (n = "d1"), data |-> <<>>]]
    /\ copied = FALSE
    /\ last = Call("new", "d1", "ok")

\* room for k more wrappers and one more entry of n
Room(n, k) == Len(dels[n].data) < MaxLen /\ Cardinality(FreeAddrs(heap)) >= k

\* room for a copy of m as one more entry of n
RoomForCopy(n, m) ==
    /\ Room(n, 1 + Cardinality(CellsOf(heap, dels[m].data)))
    /\ DepthOf(heap, dels[m].data) < MaxDepth
    /\ pool.nest

CallAddFunc(n, c) ==
    /\ Alive(n)
    /\ c.v # 0 => Room(n, 1)
    /\ Commit(AddFunc(heap, dels, n, c))
    /\ last' = Call("Add", n, IF c.v = 0 THEN "null" ELSE "ok")
    /\ UNCHANGED <<pool, copied>>

CallAddCallable(n, c) ==
    /\ Alive(n)
    /\ Room(n, 1)
    /\ Commit(AddCallable(heap, dels, n, c))
    /\ last' = Call("Add", n, "ok")
    /\ UNCHANGED <<pool, copied>>

CallAddMember(n, c) ==
    /\ Alive(n)
    /\ Room(n, 1)
    /\ Commit(AddMember(heap, dels, n, c))
    /\ last' = Call("Add", n, IF c.func = 0 THEN "null" ELSE "ok")
    /\ UNCHANGED <<pool, copied>>

CallAddDelegate(n, m) ==
    /\ Alive(n) /\ Alive(m)
    /\ RoomForCopy(n, m)
    /\ Commit(AddDelegate(heap, dels, n, m))
    /\ last' = Call("Add", n, "ok")
    /\ UNCHANGED <<pool, copied>>

CallAddICallable(n, m) ==
    /\ Alive(n) /\ Alive(m)
    /\ RoomForCopy(n, m)
    /\ Commit(AddICallable(heap, dels, n, m))
    /\ last' = Call("Add", n, "ok")
    /\ UNCHANGED <<pool, copied>>

CallClear(n) ==
    /\ Alive(n)
    /\ Commit(Clear(heap, dels, n))
    /\ last' = [Call("Clear", n, "ok") EXCEPT !.ret = Len(dels[n].data)]
    /\ UNCHANGED <<pool, copied>>

\* the caller takes one of the results a Remove can give
Removed(S, n, c) ==
    \E e \in S :
        /\ Commit(e)
        /\ last' = [Call("Remove", n, IF e.idx = 0 THEN "false" ELSE "true")
                       EXCEPT !.arg = c, !.ret = e.idx]

CallRemoveFunc(n, c) ==
    /\ Alive(n)
    /\ Removed(RemoveFunc(heap, dels, n, c), n, c)
    /\ UNCHANGED <<pool, copied>>

CallRemoveCallable(n, c) ==
    /\ Alive(n)
    /\ Removed(RemoveCallable(heap, dels, n, c), n, c)
    /\ UNCHANGED <<pool, copied>>

CallRemoveMember(n, c) ==
    /\ Alive(n)
    /\ Removed(RemoveMember(heap, dels, n, c), n, c)
    /\ UNCHANGED <<pool, copied>>

CallRemoveDelegate(n, m) ==
    /\ Alive(n) /\ Alive(m)
    /\ pool.nest
    /\ Removed(RemoveDelegate(heap, dels, n, m), n, Nil)
    /\ UNCHANGED <<pool, copied>>

CallRemoveICallable(n, m) ==
    /\ Alive(n) /\ Alive(m)
    /\ pool.nest
    /\ Removed(RemoveICallable(heap, dels, n, m), n, Nil)
    /\ UNCHANGED <<pool, copied>>

\* room for a copy of every entry of src once d is released
RoomForEntries(d, src) ==
    Cardinality(FreeAddrs(FreeAll(heap, d))) >= Cardinality(CellsOf(heap, dels[src].data))

CallCopyConstruct(dst, src) ==
    /\ ~Alive(dst) /\ Alive(src)
    /\ RoomForEntries(<<>>, src)
    /\ Commit(CopyConstruct(heap, dels, dst, src))
    /\ copied' = TRUE
    /\ last' = Call("CopyConstruct", dst, "ok")
    /\ UNCHANGED pool

CallCopyAssign(dst, src) ==
    /\ Alive(dst) /\ Alive(src)
    /\ dst # src => RoomForEntries(dels[dst].data, src)
    /\ Commit(CopyAssign(heap, dels, dst, src))
    /\ copied' = (copied \/ dst # src)
    /\ last' = Call("CopyAssign", dst, IF dst = src THEN "self" ELSE "ok")
    /\ UNCHANGED pool

CallMoveConstruct(dst, src) ==
    /\ ~Alive(dst) /\ Alive(src)
    /\ Commit(MoveConstruct(heap, dels, dst, src))
    /\ copied' = FALSE
    /\ last' = Call("MoveConstruct", dst, "ok")
    /\ UNCHANGED pool

CallMoveAssign(dst, src) ==
    /\ Alive(dst) /\ Alive(src)
    /\ Commit(MoveAssign(heap, dels, dst, src))
    /\ copied' = (copied /\ dst = src)
    /\ last' = Call("MoveAssign", dst, IF dst = src THEN "self" ELSE "ok")
    /\ UNCHANGED pool

\* Delegate() = default
CallDefaultConstruct(n) ==
    /\ ~Alive(n)
    /\ dels' = [dels EXCEPT ![n] = [alive |-> TRUE, data |-> <<>>]]
    /\ copied' = FALSE
    /\ last' = Call("new", n, "ok")
    /\ UNCHANGED <<pool, heap>>

CallDestroy(n) ==
    /\ Alive(n)
    /\ Commit(Destroy(heap, dels, n))
    /\ copied' = FALSE
    /\ last' = Call("delete", n, "ok")
    /\ UNCHANGED pool

CallInvoke(n) ==
    /\ Alive(n)
    /\ \E o \in Invoke(heap, dels, n) :
           last' = [Call("Invoke", n, o.st)
                       EXCEPT !.ret = IF o.st = "ok" THEN o.ret ELSE Len(o.calls)]
    /\ UNCHANGED <<pool, heap, dels, copied>>

CallInvokeAll(n) ==
    /\ Alive(n)
    /\ \E o \in InvokeAll(heap, dels, n) :
           last' = [Call("InvokeAll", n, o.st)
                       EXCEPT !.rets = o.rets,
                              !.ret = IF o.st = "ok" THEN 0 ELSE Len(o.calls)]
    /\ UNCHANGED <<pool, heap, dels, copied>>

\* a.Equals(b) and then b.Equals(a) (operator== forwards to Equals)
CallEquals(a, b) ==
    /\ Alive(a) /\ Alive(b)
    /\ \E o1 \in Equals(TopView(heap, dels, a), TopView(heap, dels, b)),
          o2 \in Equals(TopView(heap, dels, b), TopView(heap, dels, a)) :
           last' = [Call("Equals", a, IF o1.ub \/ o2.ub THEN "undefined" ELSE "ok")
                       EXCEPT !.eq = <<o1.r, o2.r>>]
    /\ UNCHANGED <<pool, heap, dels, copied>>

\* bool(n), n != nullptr and n == nullptr
CallNullTest(n) ==
    /\ Alive(n)
    /\ last' = [Call("nullptr", n, "ok")
                   EXCEPT !.eq = <<OperatorBool(dels[n].data), NeNullptr(dels[n].data),
                                   EqNullptr(dels[n].data)>>]
    /\ UNCHANGED <<pool, heap, dels, copied>>

Next ==
    \/ \E n \in Names, c \in FuncPtrArgs : CallAddFunc(n, c)
    \/ \E n \in Names, c \in FunctorArgs : CallAddCallable(n, c)
    \/ \E n \in Names, c \in MemberArgs : CallAddMember(n, c)
    \/ \E n \in Names, m \in Names : CallAddDelegate(n, m)
    \/ \E n \in Names, m \in Names : CallAddICallable(n, m)
    \/ \E n \in Names : CallClear(n)
    \/ \E n \in Names, c \in FuncPtrArgs : CallRemoveFunc(n, c)
    \/ \E n \in Names, c \in FunctorArgs : CallRemoveCallable(n, c)
    \/ \E n \in Names, c \in MemberArgs : CallRemoveMember(n, c)
    \/ \E n \in Names, m \in Names : CallRemoveDelegate(n, m)
    \/ \E n \in Names, m \in Names : CallRemoveICallable(n, m)
    \/ \E dst \in Names, src \in Names : CallCopyConstruct(dst, src)
    \/ \E dst \in Names, src \in Names : CallCopyAssign(dst, src)
    \/ \E dst \in Names, src \in Names : CallMoveConstruct(dst, src)
    \/ \E dst \in Names, src \in Names : CallMoveAssign(dst, src)
    \/ \E n \in Names : CallDefaultConstruct(n)
    \/ \E n \in Names : CallDestroy(n)
    \/ \E n \in Names : CallInvoke(n)
    \/ \E n \in Names : CallInvokeAll(n)
    \/ \E a \in Names, b \in Names : CallEquals(a, b)
    \/ \E n \in Names : CallNullTest(n)

Spec == Init /\ [][Next]_vars

(* ------------------------------ properties ----------------------------- *)
IsPrefix(p, q) == Len(p) <= Len(q) /\ \A i \in 1..Len(p) : p[i] = q[i]

\* the results a call of the entry at address a can return
ResultsOf(h, a) == {e.ret : e \in {o \in InvokeEntry(View(h, a)) : o.st = "ok"}}

\* no call of an entry of d can fail
NoneFails(h, d) == \A i \in 1..Len(d) : \A o \in InvokeEntry(View(h, d[i])) : o.st = "ok"

\* the cell at address a is the wrapper Add(s) stores
Stores(h, a, s) ==
    CASE s.k = "wrap" -> h[a].kind = "val" /\ h[a].type = "Delegate"
      [] s.k = "icall" -> h[a].kind = "dlg"
      [] OTHER -> h[a] = s.c

\* n.Add(s1); n.Add(s2); n.Invoke(): each Add leaves the entries it found
\* in place and puts its own behind them, and Invoke calls the entries
\* from the first to the last
AddsThenInvoke(n, s1, s2) ==
    LET old == dels[n].data
        e1  == AddAny(heap, dels, n, s1)
        d1  == e1.ds[n].data
        e2  == AddAny(e1.h, e1.ds, n, s2)
        d2  == e2.ds[n].data
    IN /\ IsPrefix(old, d1) /\ Len(d1) <= Len(old) + 1
       /\ IsPrefix(d1, d2) /\ Len(d2) <= Len(d1) + 1
       /\ Len(d1) > Len(old) =>
              /\ d1[Len(d1)] \notin CellsOf(heap, old)
              /\ Stores(e1.h, d1[Len(d1)], s1)
       /\ Len(d2) > Len(d1) =>
              /\ d2[Len(d2)] \notin CellsOf(e1.h, d1)
              /\ Stores(e2.h, d2[Len(d2)], s2)
       /\ \A o \in Invoke(e2.h, e2.ds, n) :
              /\ IsPrefix(o.calls, d2)
              /\ o.st = "ok" => o.calls = d2
       /\ d2 # <<>> /\ NoneFails(e2.h, d2) =>
              \A o \in Invoke(e2.h, e2.ds, n) : o.st = "ok"

\* C1: whatever a Delegate holds and whatever two Adds follow, Invoke calls
\* the entries in the order they were added: the entries already there
\* first, in their order, then the entry of the first Add, then the entry
\* of the second; an Invoke that returns has called all of them.
C1_InvokeOrderIsAddOrder ==
    \A n \in Names : Alive(n) =>
        \A s1 \in ArgsOf(pool, dels) : Fits(heap, dels, s1) =>
            \A s2 \in ArgsOf(pool, dels) :
                Fits(AddAny(heap, dels, n, s1).h, AddAny(heap, dels, n, s1).ds, s2) =>
                    AddsThenInvoke(n, s1, s2)

\* an Invoke has returned from a Delegate of MaxLen different entries
C1_Witness ==
    /\ last.op = "Invoke" /\ last.st = "ok"
    /\ Len(dels[last.tgt].data) = MaxLen
    /\ heap[dels[last.tgt].data[1]] # heap[dels[last.tgt].data[MaxLen]]

\* an Invoke or InvokeAll of the empty Delegate n
InvokeOfEmpty(n) ==
    /\ Invoke(heap, dels, n) = {Outcome("EmptyDelegate", 0, <<>>, <<>>)}
    /\ InvokeAll(heap, dels, n) = {Outcome("ok", 0, <<>>, <<>>)}
    /\ last'.tgt = n /\ last'.op = "Invoke" =>
           last'.st = "EmptyDelegate" /\ dels' = dels /\ heap' = heap
    /\ last'.tgt = n /\ last'.op = "InvokeAll" =>
           last'.st = "ok" /\ last'.rets = <<>> /\ dels' = dels /\ heap' = heap

\* C3: on a Delegate without entries Invoke fails with EmptyDelegate, calls
\* no entry and leaves the Delegate empty; InvokeAll does not fail and
\* returns the empty sequence.
C3_EmptyInvoke ==
    [][\A n \in Names : Alive(n) /\ dels[n].data = <<>> => InvokeOfEmpty(n)]_vars

\* Invoke has failed on a Delegate without entries
C3_Witness ==
    /\ last.op = "Invoke" /\ last.st = "EmptyDelegate"
    /\ dels[last.tgt].data = <<>>

\* the addresses of d are all different
Distinct(d) == \A i, j \in 1..Len(d) : d[i] = d[j] => i = j

\* C4: an Invoke of a Delegate with entries that returns has called every
\* entry once, from the first to the last, and returns what the call of the
\* last entry returned, whatever the calls before it returned; it does
\* return when no entry fails.
C4_InvokeReturnsLast ==
    /\ \A n \in Names : Alive(n) /\ dels[n].data # <<>> =>
           /\ Distinct(dels[n].data)
           /\ \A o \in Invoke(heap, dels, n) :
                  o.st = "ok" =>
                      /\ o.calls = dels[n].data
                      /\ Len(o.rets) = Len(o.calls)
                      /\ \A i \in 1..Len(o.rets) : o.rets[i] \in ResultsOf(heap, o.calls[i])
                      /\ o.ret = o.rets[Len(o.rets)]
           /\ NoneFails(heap, dels[n].data) =>
                  \A o \in Invoke(heap, dels, n) : o.st = "ok"
    /\ last.op = "Invoke" /\ last.st = "ok" =>
           /\ dels[last.tgt].data # <<>>
           /\ last.ret \in ResultsOf(heap, dels[last.tgt].data[Len(dels[last.tgt].data)])

\* an Invoke has returned the last entry's result, which the first entry
\* does not return
C4_Witness ==
    /\ last.op = "Invoke" /\ last.st = "ok"
    /\ Len(dels[last.tgt].data) > 1
    /\ last.ret \notin ResultsOf(heap, dels[last.tgt].data[1])

\* C5: an InvokeAll that returns has called every entry once, from the
\* first to the last, and returns one result per entry, the i-th being
\* what the call of the i-th entry returned; it does return when no entry
\* fails.
C5_InvokeAllResults ==
    /\ \A n \in Names : Alive(n) =>
           /\ \A o \in InvokeAll(heap, dels, n) :
                  o.st = "ok" =>
                      /\ o.calls = dels[n].data
                      /\ Len(o.rets) = Len(dels[n].data)
                      /\ \A i \in 1..Len(o.rets) : o.rets[i] \in ResultsOf(heap, dels[n].data[i])
           /\ NoneFails(heap, dels[n].data) =>
                  \A o \in InvokeAll(heap, dels, n) : o.st = "ok"
    /\ last.op = "InvokeAll" /\ last.st = "ok" =>
           /\ Len(last.rets) = Len(dels[last.tgt].data)
           /\ \A i \in 1..Len(last.rets) :
                  last.rets[i] \in ResultsOf(heap, dels[last.tgt].data[i])

\* an InvokeAll has returned MaxLen results, the first and the last different
C5_Witness ==
    /\ last.op = "InvokeAll" /\ last.st = "ok"
    /\ Len(last.rets) = MaxLen
    /\ last.rets[1] # last.rets[MaxLen]

\* the argument s of Remove as the ICallable that _Remove receives
ArgView(h, ds, s) ==
    CASE s.k = "wrap" -> TempWrap(TopView(h, ds, s.m))
      [] s.k = "icall" -> TopView(h, ds, s.m)
      [] OTHER -> Temp(s.c)

\* what the call "entry at a".Equals(y) can return
Answers(h, a, y) == {o.r : o \in Equals(View(h, a), y)}

\* d without its i-th element
Except(d, i) == SubSeq(d, 1, i - 1) \o SubSeq(d, i + 1, Len(d))

\* r is what n.Remove(s) may leave from the heap h and the Delegates ds
RemovesLastEqual(h, ds, n, s, r) ==
    LET d == ds[n].data
        y == ArgView(h, ds, s)
    IN /\ r.idx \in 0..Len(d)
       /\ r.idx = 0 =>
              /\ r.h = h /\ r.ds = ds
              /\ (s.k = "c" /\ s.c.type = "fp" /\ s.c.v = 0)
                     \/ \A i \in 1..Len(d) : FALSE \in Answers(h, d[i], y)
       /\ r.idx > 0 =>
              /\ TRUE \in Answers(h, d[r.idx], y)
              /\ \A j \in (r.idx + 1)..Len(d) : FALSE \in Answers(h, d[j], y)
              /\ r.ds[n].data = Except(d, r.idx)
              /\ Views(r.h, r.ds[n].data) = Views(h, Except(d, r.idx))
              /\ \A m \in Names \ {n} :
                     r.ds[m] = ds[m] /\ Views(r.h, r.ds[m].data) = Views(h, ds[m].data)

\* n.Add(s); n.Add(s); n.Remove(s) where the entry Add(s) stores Equals
\* the argument of Remove(s): the Remove erases the entry of the second
\* Add and leaves what the first Add left
AddTwiceRemoveOnce(n, s) ==
    LET old == dels[n].data
        e1  == AddAny(heap, dels, n, s)
        e2  == AddAny(e1.h, e1.ds, n, s)
        d2  == e2.ds[n].data
    IN Len(d2) = Len(old) + 2
         /\ Equals(View(e2.h, d2[Len(d2)]), ArgView(e2.h, e2.ds, s)) = Defined(TRUE) =>
           \A r \in RemoveAny(e2.h, e2.ds, n, s) :
               /\ r.idx = Len(d2)
               /\ r.h = e1.h /\ r.ds = e1.ds
               /\ old = <<>> =>
                      \A o \in Invoke(r.h, r.ds, n) : o.calls = <<d2[1]>>

\* C2: Remove erases the entry most recently added among those that Equal
\* its argument (every entry behind the erased one has answered false),
\* erases no other entry and changes nothing when no entry Equals the
\* argument; after X has been added twice, one Remove of X erases the
\* second X and leaves the first, which a following Invoke calls once.
C2_RemoveLastEqual ==
    \A n \in Names : Alive(n) =>
        \A s \in ArgsOf(pool, dels) :
            /\ \A r \in RemoveAny(heap, dels, n, s) : RemovesLastEqual(heap, dels, n, s, r)
            /\ Fits(heap, dels, s) /\ Fits(AddAny(heap, dels, n, s).h, AddAny(heap, dels, n, s).ds, s)
                   => AddTwiceRemoveOnce(n, s)

\* a Remove has erased the second of two entries that Equal its argument
C2_Witness ==
    /\ last.op = "Remove" /\ last.st = "true" /\ last.ret = 2
    /\ last.arg # Nil
    /\ Len(dels[last.tgt].data) = 1
    /\ Answers(heap, dels[last.tgt].data[1], Temp(last.arg)) = {TRUE}

\* C6: an Add of a null function pointer, or of an object with a null
\* member-function pointer (receiver const or not), raises no error and
\* leaves the entries of every Delegate as they were.
C6_NullAddIsNoOp ==
    [][last'.op = "Add" /\ last'.st = "null" => dels' = dels /\ heap' = heap]_vars

Other(n) == IF n = "d1" THEN "d2" ELSE "d1"

\* the call that took the state to e has left Delegate m alone
Untouched(e, m) ==
    /\ e.ds[m] = dels[m]
    /\ Views(e.h, e.ds[m].data) = Views(heap, dels[m].data)
    /\ Invoke(e.h, e.ds, m) = Invoke(heap, dels, m)

\* C7: once one Delegate has been copy-constructed or copy-assigned from
\* the other, the two own separate wrappers, and every Add, Remove and
\* Clear on either of them leaves the entries of the other, and what an
\* Invoke of the other calls and returns, unchanged.
C7_CopyIsIndependent ==
    copied /\ Alive("d1") /\ Alive("d2") =>
        /\ CellsOf(heap, dels["d1"].data) \cap CellsOf(heap, dels["d2"].data) = {}
        /\ \A n \in Names :
               /\ Untouched(Clear(heap, dels, n), Other(n))
               /\ \A s \in ArgsOf(pool, dels) :
                      /\ Fits(heap, dels, s) => Untouched(AddAny(heap, dels, n, s), Other(n))
                      /\ \A r \in RemoveAny(heap, dels, n, s) : Untouched(r, Other(n))

\* after a copy, an Add, Remove or Clear has changed one Delegate, and the
\* other still has its entries
C7_Witness ==
    /\ copied /\ Alive("d1") /\ Alive("d2")
    /\ last.op \in {"Add", "Remove", "Clear"} /\ last.st \in {"ok", "true"}
    /\ Len(dels[Other(last.tgt)].data) = MaxLen
    /\ Len(dels[last.tgt].data) # MaxLen

\* e is a move from src to dst: dst has the entries src had, src has none
Moved(e, dst, src) ==
    /\ e.ds[dst].alive /\ e.ds[src].alive
    /\ e.ds[dst].data = dels[src].data
    /\ Views(e.h, e.ds[dst].data) = Views(heap, dels[src].data)
    /\ e.ds[src].data = <<>>
    /\ Invoke(e.h, e.ds, src) = {Outcome("EmptyDelegate", 0, <<>>, <<>>)}

\* C8: a move construction or a move assignment from another Delegate
\* gives the destination the entries the source had, the same wrappers in
\* the same order, and leaves the source without entries, so that an
\* Invoke of the source fails with EmptyDelegate.
C8_MoveTransfers ==
    /\ \A dst \in Names : Alive(Other(dst)) =>
           IF Alive(dst)
           THEN Moved(MoveAssign(heap, dels, dst, Other(dst)), dst, Other(dst))
           ELSE Moved(MoveConstruct(heap, dels, dst, Other(dst)), dst, Other(dst))
    /\ last.op \in {"MoveConstruct", "MoveAssign"} /\ last.st = "ok" =>
           dels[Other(last.tgt)].data = <<>> /\ Alive(Other(last.tgt))

\* a Delegate has been moved with MaxLen entries into the other
C8_Witness ==
    /\ last.op \in {"MoveConstruct", "MoveAssign"} /\ last.st = "ok"
    /\ Len(dels[last.tgt].data) = MaxLen
    /\ dels[Other(last.tgt)].data = <<>>

\* one answer for each of the calls xs[i].Equals(ys[i])
AnswersByPosition(xs, ys) ==
    {f \in [1..Len(xs) -> BOOLEAN] :
        \A i \in 1..Len(xs) : f[i] \in {o.r : o \in Equals(xs[i], ys[i])}}

\* what "same length and every entry Equals the entry at its position"
\* comes to for the entries xs and ys
PairwiseEqual(xs, ys) ==
    IF Len(xs) # Len(ys) THEN {FALSE}
    ELSE {\A i \in 1..Len(xs) : f[i] : f \in AnswersByPosition(xs, ys)}

\* the entries xs are the entries ys in the opposite order, and the two
\* entries are not equal to each other
Swapped(xs, ys) ==
    /\ Len(xs) = 2 /\ Len(ys) = 2
    /\ Equals(xs[1], ys[2]) = Defined(TRUE) /\ Equals(xs[2], ys[1]) = Defined(TRUE)
    /\ Equals(xs[1], xs[2]) = Defined(FALSE) /\ Equals(ys[1], ys[2]) = Defined(FALSE)

\* C9: a.Equals(b) for Delegates a and b (which have the same type tag)
\* returns true if and only if they have as many entries and, at every
\* position, the entry of a Equals the entry of b; so [A, B] does not equal
\* [B, A] when A and B are not equal, though each has an equal in the other.
C9_EqualsIsPairwise ==
    /\ \A a, b \in Names : Alive(a) /\ Alive(b) =>
           LET x == TopView(heap, dels, a)
               y == TopView(heap, dels, b)
           IN /\ GetTypeInfo(x) = GetTypeInfo(y)
              /\ {o.r : o \in Equals(x, y)} = PairwiseEqual(x.sub, y.sub)
              /\ Swapped(x.sub, y.sub) => Equals(x, y) = Defined(FALSE)
    /\ last.op = "Equals" =>
           last.eq[1] \in PairwiseEqual(TopView(heap, dels, last.tgt).sub,
                                        TopView(heap, dels, Other(last.tgt)).sub)
              \/ last.eq[1] \in PairwiseEqual(TopView(heap, dels, last.tgt).sub,
                                              TopView(heap, dels, last.tgt).sub)

\* two Delegates holding the same two entries in opposite orders have been
\* compared and found unequal
C9_Witness ==
    /\ last.op = "Equals" /\ last.st = "ok" /\ last.eq = <<FALSE, FALSE>>
    /\ Alive("d1") /\ Alive("d2")
    /\ Swapped(Views(heap, dels["d1"].data), Views(heap, dels["d2"].data))

\* C10: d.Equals(d) is true for every Delegate d, and for every two
\* Delegates d1.Equals(d2) returns what d2.Equals(d1) returns, whatever
\* kinds of entries they hold.
C10_EqualsReflexiveSymmetric ==
    [][/\ \A n \in Names : Alive(n) =>
              Equals(TopView(heap, dels, n), TopView(heap, dels, n)) = Defined(TRUE)
       /\ last'.op = "Equals" => last'.eq[1] = last'.eq[2]]_vars

\* C11: a callable of a type with tier-1 (operator==) or tier-2 (byte-wise)
\* equality that is added to a Delegate without entries and then at once
\* removed, by the same value, leaves the Delegate without entries.
C11_AddRemoveRoundTrip ==
    [][/\ last.op = "Add" /\ last.st = "ok"
       /\ last'.op = "Remove" /\ last'.tgt = last.tgt
       /\ Len(dels[last.tgt].data) = 1
       /\ last'.arg = heap[dels[last.tgt].data[1]]
       /\ last'.arg.kind = "val" /\ Tier(last'.arg.type) \in {1, 2}
       => last'.st = "true" /\ dels'[last.tgt].data = <<>>]_vars

\* the cell c holds a value wrapper of a type with identity-only equality
IsTier3(c) == c.kind = "val" /\ Tier(c.type) = 3

\* the addresses of the wrappers in use
Used(h) == Addrs \ FreeAddrs(h)

\* C12: two wrappers of a type without safe equality (tier 3) are equal
\* only when they are the same wrapper; so a Remove by value, which
\* compares the entries with a wrapper it has just built, erases no tier-3
\* entry and, given a tier-3 value, changes nothing, while a removal given
\* the registered wrapper itself erases it.
C12_Tier3IsIdentity ==
    /\ \A a \in Used(heap) : IsTier3(heap[a]) =>
           /\ \A b \in Used(heap) : Equals(View(heap, a), View(heap, b)) = Defined(a = b)
           /\ \A s \in ArgsOf(pool, dels) :
                  Equals(View(heap, a), ArgView(heap, dels, s)) = Defined(FALSE)
    /\ \A n \in Names : Alive(n) =>
           /\ \A s \in ArgsOf(pool, dels) : \A r \in RemoveAny(heap, dels, n, s) :
                  /\ r.idx > 0 => ~IsTier3(heap[dels[n].data[r.idx]])
                  /\ s.k = "c" /\ IsTier3(s.c) => r.idx = 0 /\ r.h = heap /\ r.ds = dels
           /\ \A i \in 1..Len(dels[n].data) : IsTier3(heap[dels[n].data[i]]) =>
                  \A r \in _Remove(heap, dels, n, View(heap, dels[n].data[i])) : r.idx = i
    /\ last.op = "Remove" /\ IsTier3(last.arg) => last.st = "false"

\* a Remove given a tier-3 value has returned false on a Delegate that
\* holds an entry made from that value
C12_Witness ==
    /\ last.op = "Remove" /\ last.st = "false" /\ IsTier3(last.arg)
    /\ \E i \in 1..Len(dels[last.tgt].data) : heap[dels[last.tgt].data[i]] = last.arg

\* C13: Clone() gives, for every kind of entry, a handle that Equals the
\* original; so a Delegate that has just been copy-constructed or
\* copy-assigned from another Equals the Delegate it was copied from, and
\* that one Equals it.
C13_CopyEqualsOriginal ==
    [][last'.op \in {"CopyConstruct", "CopyAssign"} /\ last'.st = "ok" =>
           /\ Equals(TopView(heap', dels', last'.tgt),
                     TopView(heap', dels', Other(last'.tgt))) = Defined(TRUE)
           /\ Equals(TopView(heap', dels', Other(last'.tgt)),
                     TopView(heap', dels', last'.tgt)) = Defined(TRUE)]_vars

\* C14: no Equals call that Add, Remove and Delegate equality can lead to
\* casts a handle to a class it is not an instance of, and two handles of
\* different classes are always found unequal; also when one Delegate is
\* stored as an entry through the ICallable overload and another inside a
\* value wrapper, which both report the type tag of Delegate.
C14_NoTypeConfusion ==
    /\ \A a, b \in Names : Alive(a) /\ Alive(b) =>
           \A o \in Equals(TopView(heap, dels, a), TopView(heap, dels, b)) : ~o.ub
    /\ \A n \in Names : Alive(n) =>
           \A s \in ArgsOf(pool, dels) : \A r \in RemoveAny(heap, dels, n, s) : ~r.ub
    /\ \A a, b \in Used(heap) :
           ClassOf(View(heap, a)) # ClassOf(View(heap, b)) =>
               Equals(View(heap, a), View(heap, b)) = Defined(FALSE)

\* C15: the conversion of a Delegate to bool, and its comparison != nullptr,
\* are true if and only if it holds at least one entry, and its comparison
\* == nullptr is true if and only if it holds none.
C15_NullTests ==
    /\ \A n \in Names : Alive(n) =>
           /\ OperatorBool(dels[n].data) <=> \E i \in DOMAIN dels[n].data : TRUE
           /\ NeNullptr(dels[n].data) <=> \E i \in DOMAIN dels[n].data : TRUE
           /\ EqNullptr(dels[n].data) <=> dels[n].data = <<>>
           /\ OperatorBool(dels[n].data) <=>
                  \A o \in Invoke(heap, dels, n) : o.calls # <<>>
    /\ last.op = "nullptr" =>
           /\ last.eq[1] <=> CellsOf(heap, dels[last.tgt].data) # {}
           /\ last.eq[2] <=> CellsOf(heap, dels[last.tgt].data) # {}
           /\ last.eq[3] <=> CellsOf(heap, dels[last.tgt].data) = {}

\* a Delegate with MaxLen entries has been tested
C15_Witness ==
    /\ last.op = "nullptr" /\ last.eq = <<TRUE, TRUE, FALSE>>
    /\ Len(dels[last.tgt].data) = MaxLen

\* C16: Clear, in whatever state, drops every entry the Delegate owns:
\* afterwards it has no entries, == nullptr is true, Invoke fails with
\* EmptyDelegate, and the other Delegate, a copy made earlier included, is
\* as it was.
C16_ClearDropsAll ==
    /\ \A n \in Names : Alive(n) =>
           LET e == Clear(heap, dels, n)
           IN /\ e.ds[n] = [alive |-> TRUE, data |-> <<>>]
              /\ EqNullptr(e.ds[n].data) /\ ~OperatorBool(e.ds[n].data)
              /\ Invoke(e.h, e.ds, n) = {Outcome("EmptyDelegate", 0, <<>>, <<>>)}
              /\ \A a \in CellsOf(heap, dels[n].data) : e.h[a] = Nil
              /\ Untouched(e, Other(n))
    /\ last.op = "Clear" => dels[last.tgt].data = <<>>

\* a Delegate with MaxLen entries has been cleared after the other was
\* copied from it, and the other has its MaxLen entries
C16_Witness ==
    /\ last.op = "Clear" /\ last.ret = MaxLen /\ copied
    /\ dels[last.tgt].data = <<>>
    /\ Len(dels[Other(last.tgt)].data) = MaxLen

\* the failures a call of the entry at address a can end in
FailuresOf(h, a) == {e.st : e \in {o \in InvokeEntry(View(h, a)) : o.st # "ok"}}

\* o is a run on the entries d in which the call of an entry failed: the
\* entries before it were called once each, in order, it was called, no
\* entry behind it was, and the caller gets its failure
StopsAtFailure(o, d) ==
    /\ Len(o.calls) \in 1..Len(d)
    /\ o.calls = SubSeq(d, 1, Len(o.calls))
    /\ o.st \in FailuresOf(heap, d[Len(o.calls)])
    /\ Len(o.rets) = Len(o.calls) - 1
    /\ \A j \in 1..Len(o.rets) : o.rets[j] \in ResultsOf(heap, d[j])

\* C17: when the call of entry i fails during an Invoke or InvokeAll of a
\* Delegate with entries, the caller gets that failure, the entries before
\* i have been called once each, no entry behind i is called, and the
\* Delegate holds the entries it held.
C17_FailurePropagates ==
    [][last'.op \in {"Invoke", "InvokeAll"} /\ dels[last'.tgt].data # <<>> =>
           /\ \A o \in Invoke(heap, dels, last'.tgt) \cup InvokeAll(heap, dels, last'.tgt) :
                  o.st # "ok" => StopsAtFailure(o, dels[last'.tgt].data)
           /\ last'.st # "ok" =>
                  /\ dels' = dels /\ heap' = heap
                  /\ last'.ret \in 1..Len(dels[last'.tgt].data)
                  /\ last'.st \in FailuresOf(heap, dels[last'.tgt].data[last'.ret])]_vars

\* an Invoke of a Delegate with MaxLen entries has failed in its first
\* entry, which throws
C17_Witness ==
    /\ last.op = "Invoke" /\ last.st = "thrown" /\ last.ret = 1
    /\ Len(dels[last.tgt].data) = MaxLen
    /\ Throws(View(heap, dels[last.tgt].data[1]))

\* C18: whatever sequence of construction, Add, Remove, Clear, copy and move
\* construction, copy and move assignment and destruction has run, no entry
\* pointer of a Delegate, nor of a Delegate held in an entry, is null: each
\* one points to a wrapper that exists.
C18_NoNullEntry ==
    /\ \A n \in Names : \A a \in CellsOf(heap, dels[n].data) : a \in Used(heap)
    /\ \A n \in Names : ~Alive(n) => dels[n].data = <<>>
    /\ \A n \in Names : Alive(n) =>
           \A s \in ArgsOf(pool, dels) :
               /\ Fits(heap, dels, s) =>
                      LET e == AddAny(heap, dels, n, s)
                      IN \A a \in CellsOf(e.h, e.ds[n].data) : a \in Used(e.h)
               /\ \A e \in RemoveAny(heap, dels, n, s) :
                      \A a \in CellsOf(e.h, e.ds[n].data) : a \in Used(e.h)

\* an entry has been removed from a Delegate that had MaxLen entries, after
\* the other Delegate was copied from it; both still hold entries
C18_Witness ==
    /\ last.op = "Remove" /\ last.st = "true" /\ copied
    /\ Len(dels[last.tgt].data) = MaxLen - 1
    /\ Len(dels[Other(last.tgt)].data) = MaxLen
    /\ \A n \in Names : \A a \in CellsOf(heap, dels[n].data) : a \in Used(heap)

\* an entry that holds a Delegate: stored by the generic Add inside a value
\* wrapper, or by Add(const ICallable &) as the Delegate Clone() returned
HoldsDelegate(x) == x.type = "Delegate"

\* the sequence-equality rule of Delegates for the entries xs and ys
SequenceEqual(xs, ys) == PairwiseEqual(xs, ys) = {TRUE}

\* the entries of d that hold a Delegate sequence-equal to the Delegate y
NestedEqualTo(h, d, y) ==
    {i \in 1..Len(d) : /\ HoldsDelegate(View(h, d[i]))
                       /\ SequenceEqual(View(h, d[i]).sub, y.sub)}

\* C19: an entry that holds a Delegate Equals another entry that holds a
\* Delegate exactly when the two Delegates are sequence-equal (same length,
\* entries equal position by position); and Remove, given a Delegate that
\* is sequence-equal to a nested entry, erases that entry (the last such).
C19_NestedEqualsBySequence ==
    /\ \A a, b \in Used(heap) :
           LET x == View(heap, a)
               y == View(heap, b)
           IN HoldsDelegate(x) /\ HoldsDelegate(y) =>
                  Equals(x, y) = Defined(SequenceEqual(x.sub, y.sub))
    /\ \A n \in Names : Alive(n) =>
           \A s \in {t \in ArgsOf(pool, dels) : t.k # "c"} :
               LET S == NestedEqualTo(heap, dels[n].data, TopView(heap, dels, s.m))
               IN S # {} =>
                      \A e \in RemoveAny(heap, dels, n, s) :
                          /\ ~e.ub
                          /\ e.idx \in S /\ \A i \in S : i <= e.idx
                          /\ e.ds[n].data = Except(dels[n].data, e.idx)

\* x is a bound-method entry
IsBound(x) == x.kind = "mem"

\* x and y bind the same object to the same member function
SameBinding(x, y) == x.obj = y.obj /\ x.func = y.func

\* C20: two bound-method entries of the same receiver constness have the
\* same type tag whatever objects they bind, and are equal if and only if
\* they bind the same object and the same member function; so
\* Remove(obj, m) erases nothing but an entry registered for obj and m:
\* never one of another object, never one of another method.
C20_BoundMethodEquality ==
    /\ \A a, b \in Used(heap) :
           LET x == View(heap, a)
               y == View(heap, b)
           IN IsBound(x) /\ IsBound(y) /\ x.type = y.type =>
                  /\ GetTypeInfo(x) = GetTypeInfo(y)
                  /\ Equals(x, y) = Defined(SameBinding(x, y))
    /\ \A n \in Names : Alive(n) =>
           \A c \in MemberArgs :
               LET d == dels[n].data
                   S == {i \in 1..Len(d) : /\ View(heap, d[i]).type = c.type
                                           /\ SameBinding(View(heap, d[i]), c)}
               IN \A e \in RemoveMember(heap, dels, n, c) :
                      /\ ~e.ub
                      /\ S = {} => e.idx = 0 /\ e.ds = dels /\ e.h = heap
                      /\ S # {} => e.idx \in S /\ e.ds[n].data = Except(d, e.idx)

\* Remove(obj1, m) has passed over the entry of (obj2, m) at the back and
\* erased the entry of (obj1, m) in front of it
C20_Witness ==
    /\ last.op = "Remove" /\ last.st = "true" /\ last.ret = 1
    /\ IsBound(last.arg)
    /\ Len(dels[last.tgt].data) = 1
    /\ LET x == View(heap, dels[last.tgt].data[1])
       IN /\ IsBound(x) /\ x.type = last.arg.type
          /\ x.func = last.arg.func /\ x.obj # last.arg.obj

\* o is a run of Invoke that returned after calling exactly the entries d of
\* the heap h, each once, from the first to the last
CallsExactly(o, h, d) ==
    /\ o.st = "ok" /\ o.calls = d
    /\ Len(o.rets) = Len(d)
    /\ \A j \in 1..Len(d) : o.rets[j] \in ResultsOf(h, d[j])

\* n.Remove(s) from the heap h and the Delegates ds, then n.Invoke(): a
\* Remove that returned true has erased one entry and left the others as
\* they were and in their order, and the Invoke calls those
RemoveThenInvoke(h, ds, n, s) ==
    LET d == ds[n].data
    IN \A r \in RemoveAny(h, ds, n, s) :
           r.idx # 0 =>
               LET rest == Except(d, r.idx)
               IN /\ r.idx \in 1..Len(d)
                  /\ r.ds[n].data = rest
                  /\ Len(rest) = Len(d) - 1
                  /\ Views(r.h, rest) = Views(h, rest)
                  /\ \A o \in Invoke(r.h, r.ds, n) :
                         /\ IsPrefix(o.calls, rest)
                         /\ o.st = "ok" => CallsExactly(o, h, rest)
                  /\ rest # <<>> /\ NoneFails(h, rest) =>
                         \A o \in Invoke(r.h, r.ds, n) : o.st = "ok"

\* C21: a Remove that returns true deletes exactly one entry and keeps all
\* the others, unchanged, in their relative order; a following Invoke calls
\* exactly the remaining entries, each once, in the order they were added.
\* Checked for the entries a Delegate holds and for those it holds after
\* one more Add.
C21_RemoveKeepsOrder ==
    \A n \in Names : Alive(n) =>
        \A s \in ArgsOf(pool, dels) :
            /\ RemoveThenInvoke(heap, dels, n, s)
            /\ \A s1 \in ArgsOf(pool, dels) : Fits(heap, dels, s1) =>
                   LET e1 == AddAny(heap, dels, n, s1)
                   IN RemoveThenInvoke(e1.h, e1.ds, n, s)

\* a Delegate of MaxLen entries gets one more by Add, Remove then erases an
\* entry that is neither the first nor the last, and Invoke calls the first
\* and then the last of the three
C21_Witness ==
    \E n \in Names : \E s1, s \in ArgsOf(pool, dels) :
        /\ Alive(n) /\ Len(dels[n].data) = MaxLen /\ Fits(heap, dels, s1)
        /\ LET e1 == AddAny(heap, dels, n, s1)
               d  == e1.ds[n].data
           IN /\ Len(d) = MaxLen + 1
              /\ \E r \in RemoveAny(e1.h, e1.ds, n, s) :
                     /\ r.idx \in 2..MaxLen
                     /\ \E o \in Invoke(r.h, r.ds, n) :
                            /\ CallsExactly(o, e1.h, Except(d, r.idx))
                            /\ o.calls[1] = d[1] /\ o.calls[MaxLen] = d[MaxLen + 1]

\* the argument s of Add and Remove is a function pointer that is not null,
\* a value callable of a type with tier-1 or tier-2 equality (a Delegate
\* passed by value is one of tier 1), or an object bound to a method that
\* is not null
RoundTrips(s) ==
    CASE s.k = "wrap" -> TRUE
      [] s.k = "icall" -> FALSE
      [] s.c.type = "fp" -> s.c.v # 0
      [] s.c.kind = "val" -> Tier(s.c.type) \in {1, 2}
      [] OTHER -> s.c.func # 0

\* n.Add(s); n.Remove(s): the Remove returns true for the entry the Add has
\* put at the back, and the Delegates and the heap are as before the Add
AddThenRemove(n, s) ==
    LET e1 == AddAny(heap, dels, n, s)
    IN /\ Len(e1.ds[n].data) = Len(dels[n].data) + 1
       /\ \A r \in RemoveAny(e1.h, e1.ds, n, s) :
              /\ r.idx = Len(dels[n].data) + 1
              /\ r.ds = dels /\ r.h = heap

\* C22: whatever a Delegate holds, Add(x) followed at once by Remove(x),
\* for x a function pointer that is not null, a value callable with tier-1
\* or tier-2 equality, or a bound pair of an object and a method that is
\* not null, leaves exactly the entries there were before the Add: the scan
\* from the back meets the new entry before any earlier duplicate of x.
C22_AddRemoveRestores ==
    \A n \in Names : Alive(n) =>
        \A s \in ArgsOf(pool, dels) :
            RoundTrips(s) /\ Fits(heap, dels, s) => AddThenRemove(n, s)

\* Delegate m is in e2 what it was in e1: the same entries, holding the
\* same values, called by Invoke with the same outcomes, and Equals of m
\* answers as before, against each of its entries, itself and a copy of
\* what it was
SameIn(e2, e1, m) ==
    /\ e2.ds[m] = e1.ds[m]
    /\ Views(e2.h, e2.ds[m].data) = Views(e1.h, e1.ds[m].data)
    /\ Invoke(e2.h, e2.ds, m) = Invoke(e1.h, e1.ds, m)
    /\ InvokeAll(e2.h, e2.ds, m) = InvokeAll(e1.h, e1.ds, m)
    /\ \A y \in {TopView(e1.h, e1.ds, m), Fresh(TopView(e1.h, e1.ds, m))}
                \cup {View(e1.h, a) : a \in CellsOf(e1.h, e1.ds[m].data)} :
           Equals(TopView(e2.h, e2.ds, m), y) = Equals(TopView(e1.h, e1.ds, m), y)

\* n.Add(s) with s the Delegate m, through either overload: the new entry
\* of n holds copies of the entries m has now, in wrappers of its own, and
\* no Add, Remove or Clear on m that follows changes n
NestedIsDeepCopy(n, m, s) ==
    LET e1 == AddAny(heap, dels, n, s)
        d  == e1.ds[n].data
        x  == View(e1.h, d[Len(d)])
    IN /\ Len(d) = Len(dels[n].data) + 1
       /\ Stores(e1.h, d[Len(d)], s)
       /\ Fresh(x).sub = Fresh(TopView(heap, dels, m)).sub
       /\ CellsOf(e1.h, <<d[Len(d)]>>) \cap CellsOf(e1.h, e1.ds[m].data) = {}
       /\ e1.ds[m] = dels[m]
       /\ SameIn(Clear(e1.h, e1.ds, m), e1, n)
       /\ \A s2 \in ArgsOf(pool, e1.ds) :
              /\ Fits(e1.h, e1.ds, s2) => SameIn(AddAny(e1.h, e1.ds, m, s2), e1, n)
              /\ \A r \in RemoveAny(e1.h, e1.ds, m, s2) : SameIn(r, e1, n)

\* C23: an Add of Delegate D1 to another Delegate D2, through the ICallable
\* overload or the generic one, stores a deep copy of the entries D1 has at
\* that time; an Add, Remove or Clear on D1 afterwards changes neither the
\* entries D2 invokes nor what D2's equality comparisons return.
C23_NestedAddIsDeepCopy ==
    \A n \in Names : Alive(n) /\ Alive(Other(n)) =>
        \A s \in {t \in ArgsOf(pool, dels) : t.k # "c" /\ t.m = Other(n)} :
            Fits(heap, dels, s) => NestedIsDeepCopy(n, Other(n), s)

\* a Delegate holding one entry is added to the other, through either
\* overload, and then cleared; the other still calls the copy it holds,
\* and the Delegate that was added is empty
C23_Witness ==
    \E n \in Names : \E s \in ArgsOf(pool, dels) :
        /\ Alive(n) /\ Alive(Other(n)) /\ s.k # "c" /\ s.m = Other(n)
        /\ Len(dels[Other(n)].data) = 1 /\ Fits(heap, dels, s)
        /\ last.op = "Add" /\ last.tgt = Other(n)
        /\ LET e1 == AddAny(heap, dels, n, s)
               e2 == Clear(e1.h, e1.ds, Other(n))
           IN /\ e2.ds[Other(n)].data = <<>>
              /\ \E o \in Invoke(e2.h, e2.ds, n) :
                     o.st = "ok" /\ o.ret \in ResultsOf(heap, dels[Other(n)].data[1])
              /\ SameIn(e2, e1, n)

====
